---------------------------- MODULE Spec2Model ----------------------------
(***************************************************************************)
(* Model of packages/react-scripts/scripts/publish.js: the publish         *)
(* workflow (version-conflict check, build, artifact classification,       *)
(* concurrent upload) and the URL normalizer deslashUrl.                   *)
(*                                                                         *)
(* Strings are sequences of one-character strings, so that prefix, suffix  *)
(* and regular-expression matching are computed as the code computes them. *)
(* One action is one turn of the JavaScript event loop: the synchronous    *)
(* code that runs between two awaits is atomic.                            *)
(***************************************************************************)
EXTENDS Integers, Sequences, FiniteSets, TLC

VARIABLES
    missing,     \* the option that was not given ("none": all were given)
    force,       \* program.force
    sourceMaps,  \* program.sourceMaps
    appVersion,  \* program.appVersion (<<>> when not given)
    files,       \* what fs.readdirSync(localPath) returns after the build
    store,       \* the objects of the bucket
    store0,      \* history: the bucket before any run started
    pc,          \* per run: where the process is
    exists,      \* per run: what pathExists returned
    tasks,       \* per run: the promises of uploads, in the order of line 137
    log,         \* per run, history: what the process did, in order
    exitCode,    \* per run: the exit status of the process (-1: running)
    url,         \* normalizer: the input string
    res          \* normalizer: the results of successive applications

pubVars == <<missing, force, sourceMaps, appVersion, files, store, store0, pc, exists,
             tasks, log, exitCode>>
normVars == <<url, res>>
vars == <<missing, force, sourceMaps, appVersion, files, store, store0, pc, exists,
          tasks, log, exitCode, url, res>>

---------------------------------------------------------------------------
(* Bounds *)

MaxFiles == 3     \* most entries in the artifact directory
MaxUrlLen == 5    \* longest input of the normalizer

---------------------------------------------------------------------------
(* Strings *)

Lower == {"a","b","c","d","e","f","g","h","i","j","k","l","m",
          "n","o","p","q","r","s","t","u","v","w","x","y","z"}

\* String.prototype.endsWith
EndsWith(s, suf) ==
    /\ Len(s) >= Len(suf)
    /\ SubSeq(s, Len(s) - Len(suf) + 1, Len(s)) = suf

\* key begins with prefix (the Prefix parameter of listObjects)
StartsWith(s, pre) ==
    /\ Len(s) >= Len(pre)
    /\ SubSeq(s, 1, Len(pre)) = pre

\* the lookbehind (?<![a-z]+:) fails at position i (1-based) when the text
\* before i ends in a lower-case letter followed by ':'
AfterScheme(s, i) ==
    /\ i >= 3
    /\ s[i-1] = ":"
    /\ s[i-2] \in Lower

\* one match of /(?<![a-z]+:)\/\// at position i
SlashPairAt(s, i) ==
    /\ i < Len(s)
    /\ s[i] = "/"
    /\ s[i+1] = "/"
    /\ ~AfterScheme(s, i)

RECURSIVE ReplaceFrom(_, _)
\* String.prototype.replace with a global regex: leftmost matches, not
\* overlapping, the scan resuming after each match
ReplaceFrom(s, i) ==
    IF i > Len(s) THEN <<>>
    ELSE IF SlashPairAt(s, i) THEN <<"/">> \o ReplaceFrom(s, i + 2)
    ELSE <<s[i]>> \o ReplaceFrom(s, i + 1)

deslashUrl(u) == ReplaceFrom(u, 1)

\* localPath.replace(/\/$/, '')
StripTrailingSlash(p) ==
    IF Len(p) > 0 /\ p[Len(p)] = "/" THEN SubSeq(p, 1, Len(p) - 1) ELSE p

---------------------------------------------------------------------------
(* Configuration and environment *)

Runs == {1, 2}

s3Path == <<"p">>
localPath == <<"d", "/">>
publicUrlBase == <<"h","t","t","p","s",":","/","/","h","/">>

V10 == <<"1",".","0">>
V101 == <<"1",".","0",".","1">>
\* the version field of the project's package.json
PackageVersion == V101

MainJs == <<"m","a","i","n",".","j","s">>
MainJsMap == <<"m","a","i","n",".","j","s",".","m","a","p">>
ACss == <<"a",".","c","s","s">>
ACssMap == <<"a",".","c","s","s",".","m","a","p">>
ReadmeTxt == <<"r","e","a","d","m","e",".","t","x","t">>
ServiceWorkerJs == <<"s","e","r","v","i","c","e","-","w","o","r","k","e","r",".","j","s">>

DotJs == <<".","j","s">>
DotJsMap == <<".","j","s",".","m","a","p">>
DotCss == <<".","c","s","s">>
DotCssMap == <<".","c","s","s",".","m","a","p">>

\* the entries a build may leave in the directory, in directory order
Candidates == <<ACss, ACssMap, MainJs, MainJsMap, ReadmeTxt, ServiceWorkerJs>>

Pick(S) ==
    LET In(f) == f \in S IN SelectSeq(Candidates, In)

SortedListings ==
    { Pick(S) : S \in { T \in SUBSET { Candidates[i] : i \in 1..Len(Candidates) } :
                          Cardinality(T) <= MaxFiles } }

Reverse(s) == [i \in 1..Len(s) |-> s[Len(s) + 1 - i]]

\* readdirSync promises no order: each set of entries in two orders
Listings == SortedListings \cup { Reverse(l) : l \in SortedListings }

JsType == "application/javascript"
CssType == "text/css"

\* what putObject stores (the bucket is the one bucket of the run)
Object(key, file, type) ==
    [Key |-> key, Body |-> file, ACL |-> "public-read", ContentType |-> type]

InitialStores ==
    { {},
      { Object(s3Path \o <<"/">> \o V10 \o <<"/">> \o MainJs, <<"o">>, JsType) },
      { Object(s3Path \o <<"/">> \o V101 \o <<"/">> \o MainJs, <<"o">>, JsType) } }

BuildOutcomes == {"exit0", "exit1", "signal", "error"}

---------------------------------------------------------------------------
(* The functions of publish.js *)

\* the options the script refuses to run without
Required == {"s3Bucket", "s3Path", "localPath"}

\* the options the script reads and gives no default
Options == {"s3Bucket", "s3Path", "localPath", "publicUrlBase"}

\* typeof program[opt] === 'undefined' for one of the required options
MissingRequired == missing \in Required

\* `${undefined}` in a template literal
Undefined == <<"u","n","d","e","f","i","n","e","d">>

\* program.publicUrlBase as the template literals of lines 99 and 142 read it
PublicUrlBase == IF missing = "publicUrlBase" THEN Undefined ELSE publicUrlBase

\* what the unhandledRejection handler prints before it throws
FailureReport == <<"Publish failed with:", "err.message">>

\* appVersion || require(appRoot + '/package.json').version
Version == IF appVersion # <<>> THEN appVersion ELSE PackageVersion

versionS3Path == s3Path \o <<"/">> \o Version

\* mutant: any exit of the child counts as success
BuildResolvesAnyExit(outcome) == outcome \in {"exit0", "exit1"}

\* mutant: if (!code) resolve(), which takes a signal's null code for 0
BuildResolvesFalsy(outcome) == outcome \in {"exit0", "signal"}

\* the promise of build() resolves
BuildResolves(outcome) == outcome = "exit0"

\* mutant: the answer of listObjects not consulted
pathExistsUnconditionally(st, path) == TRUE

\* list.Contents.length > 0 for listObjects({Prefix: path})
pathExists(st, path) == \E o \in st : StartsWith(o.Key, path)

\* mutant: the force flag read the wrong way round
ShouldAbortInverted(ex, f) == ex /\ f

\* mutant: the force flag not consulted
ShouldAbortIgnoringForce(ex, f) == ex

\* the branch that ends in process.exit(1)
ShouldAbort(ex, f) == ex /\ ~f

\* mutant: the second filter of line 108 left out
IsScriptWithWorker(f, sm) ==
    EndsWith(f, DotJs) \/ (sm /\ EndsWith(f, DotJsMap))

IsScript(f, sm) ==
    /\ EndsWith(f, DotJs) \/ (sm /\ EndsWith(f, DotJsMap))
    /\ f # ServiceWorkerJs

\* mutant: the stylesheet filter (109-111) also lets the scripts through
IsStylesheetOrScript(f, sm) ==
    \/ EndsWith(f, DotCss) \/ (sm /\ EndsWith(f, DotCssMap))
    \/ EndsWith(f, DotJs)

IsStylesheet(f, sm) ==
    EndsWith(f, DotCss) \/ (sm /\ EndsWith(f, DotCssMap))

jsFiles(fs, sm) ==
    LET Test(f) == IsScript(f, sm) IN SelectSeq(fs, Test)

cssFiles(fs, sm) ==
    LET Test(f) == IsStylesheet(f, sm) IN SelectSeq(fs, Test)

UploadKey(filename) == versionS3Path \o <<"/">> \o filename

UploadFile(filename) == StripTrailingSlash(localPath) \o <<"/">> \o filename

\* the promise uploadFileToS3 returns. Its state st is "inflight" (the put
\* is issued, the promise pending), "unread" (fs.readFileSync threw: no put,
\* the promise rejected from the start), "ok" (the put succeeded, the
\* promise resolved), "failed" (the put failed, the promise rejected) or
\* "landed" (the put reached the store after the process had ended)
Task(filename, type, st) ==
    [Key |-> UploadKey(filename), file |-> UploadFile(filename),
     ContentType |-> type, st |-> st]

uploadJsFileToS3(filename, st) == Task(filename, JsType, st)

\* mutant: the stylesheet upload copied from the script upload
uploadCssAsJs(filename, st) == Task(filename, JsType, st)

uploadCssFileToS3(filename, st) == Task(filename, CssType, st)

\* jsUploads.concat(cssUploads); sts gives each promise's state at creation
Uploads(js, css, sts) ==
    [i \in 1..(Len(js) + Len(css)) |->
        IF i <= Len(js) THEN uploadJsFileToS3(js[i], sts[i])
        ELSE uploadCssFileToS3(css[i - Len(js)], sts[i])]

\* mutant: Promise.race in place of Promise.all
AnyResolved(ts) == \E i \in 1..Len(ts) : ts[i].st = "ok"

\* Promise.all: resolves when every promise has resolved
AllResolved(ts) == \A i \in 1..Len(ts) : ts[i].st = "ok"

\* a rejected promise
Rejected(t) == t.st \in {"unread", "failed"}

\* mutant: Promise.allSettled, then fail when one was rejected
RejectedAfterAllSettled(ts) ==
    /\ \E i \in 1..Len(ts) : Rejected(ts[i])
    /\ \A i \in 1..Len(ts) : ts[i].st \in {"ok", "unread", "failed"}

\* mutant: the rejection is caught and dropped
RejectionSwallowed(ts) == FALSE

\* Promise.all: rejects as soon as one promise has rejected
AnyRejected(ts) == \E i \in 1..Len(ts) : Rejected(ts[i])

\* mutant: the guard compares the wrong way and never holds
NoMainJsNever(js) == Len(js) < 0

\* jsFiles.length === 0: the run ends with process.exit(1)
NoMainJs(js) == Len(js) = 0

\* putObject overwrites the object of the key
Put(st, o) == { x \in st : x.Key # o.Key } \cup {o}

BuildUrl == deslashUrl(PublicUrlBase \o <<"/">> \o versionS3Path \o <<"/">>)

MainUrl == deslashUrl(PublicUrlBase \o <<"/">> \o versionS3Path \o <<"/">> \o MainJs)

Ev(e, a) == [ev |-> e, arg |-> a]

UploadEvents(ts) == [i \in 1..Len(ts) |-> Ev("upload", ts[i].Key)]

---------------------------------------------------------------------------
(* The publish run r *)

Terminal == {"done", "aborted", "failed"}

\* the process ends with status c
Exit(r, p, c, evs) ==
    /\ pc' = [pc EXCEPT ![r] = p]
    /\ exitCode' = [exitCode EXCEPT ![r] = c]
    /\ log' = [log EXCEPT ![r] = @ \o evs]

\* await Promise.all(uploads) with the promises in states ts: go on to report
\* success, end on the unhandled rejection, or keep waiting
Join(r, ts, evs) ==
    IF AllResolved(ts)
    THEN Exit(r, "done", 0, evs \o <<Ev("complete", MainUrl)>>)
    ELSE IF AnyRejected(ts)
    THEN Exit(r, "failed", 1, evs \o <<Ev("failed", FailureReport)>>)
    ELSE /\ pc' = [pc EXCEPT ![r] = "uploading"]
         /\ log' = [log EXCEPT ![r] = @ \o evs]
         /\ UNCHANGED exitCode

\* lines 172-178: a required option is missing
MissingArgument(r) ==
    /\ pc[r] = "start"
    /\ MissingRequired
    /\ Exit(r, "failed", 1, <<Ev("missing-argument", <<missing>>)>>)
    /\ UNCHANGED <<missing, force, sourceMaps, appVersion, files, store, store0,
                   exists, tasks, url, res>>

\* lines 172-180, 73-84: the required options are there; resolve the
\* version, issue the existence check
Start(r) ==
    /\ pc[r] = "start"
    /\ ~MissingRequired
    /\ pc' = [pc EXCEPT ![r] = "checking"]
    /\ log' = [log EXCEPT ![r] = @ \o <<Ev("check-issued", versionS3Path)>>]
    /\ UNCHANGED <<missing, force, sourceMaps, appVersion, files, store, store0, exists,
                   tasks, exitCode, url, res>>

\* line 73: require of package.json throws; the rejection is unhandled
ManifestUnreadable(r) ==
    /\ pc[r] = "start"
    /\ ~MissingRequired
    /\ appVersion = <<>>
    /\ Exit(r, "failed", 1, <<Ev("failed", FailureReport)>>)
    /\ UNCHANGED <<missing, force, sourceMaps, appVersion, files, store, store0, exists,
                   tasks, url, res>>

\* lines 84-99: listObjects answers; abort, or start the build
CheckReturns(r) ==
    /\ pc[r] = "checking"
    /\ LET ex == pathExists(store, versionS3Path) IN
        /\ exists' = [exists EXCEPT ![r] = ex]
        /\ IF ShouldAbort(ex, force)
           THEN Exit(r, "aborted", 1, <<Ev("check-done", <<>>)>>)
           ELSE /\ pc' = [pc EXCEPT ![r] = "building"]
                /\ log' = [log EXCEPT ![r] =
                             @ \o <<Ev("check-done", <<>>),
                                    Ev("build-invoked", BuildUrl)>>]
                /\ UNCHANGED exitCode
    /\ UNCHANGED <<missing, force, sourceMaps, appVersion, files, store, store0, tasks,
                   url, res>>

\* line 34: listObjects fails; the rejection is unhandled
CheckFails(r) ==
    /\ pc[r] = "checking"
    /\ Exit(r, "failed", 1, <<Ev("failed", FailureReport)>>)
    /\ UNCHANGED <<missing, force, sourceMaps, appVersion, files, store, store0, exists,
                   tasks, url, res>>

\* lines 22-29, 99: the build ends without exit code 0
BuildFails(r) ==
    /\ pc[r] = "building"
    /\ \E outcome \in BuildOutcomes :
        /\ ~BuildResolves(outcome)
        /\ Exit(r, "failed", 1,
                <<Ev("build-done", <<outcome>>), Ev("failed", FailureReport)>>)
    /\ UNCHANGED <<missing, force, sourceMaps, appVersion, files, store, store0, exists,
                   tasks, url, res>>

\* lines 26-27, 99-116: the build resolves, readdirSync throws
ReadDirFails(r) ==
    /\ pc[r] = "building"
    /\ \E outcome \in BuildOutcomes :
        /\ BuildResolves(outcome)
        /\ Exit(r, "failed", 1,
                <<Ev("build-done", <<outcome>>), Ev("readdir-failed", <<>>)>>)
    /\ UNCHANGED <<missing, force, sourceMaps, appVersion, files, store, store0, exists,
                   tasks, url, res>>

\* lines 26-27, 99-138: the build resolves, the directory is classified and
\* every upload is started; then the run waits on Promise.all
BuildDone(r) ==
    /\ pc[r] = "building"
    /\ \E outcome \in BuildOutcomes :
        /\ BuildResolves(outcome)
        /\ LET js == jsFiles(files, sourceMaps)
               css == cssFiles(files, sourceMaps)
               done == <<Ev("build-done", <<outcome>>), Ev("classify-done", <<>>)>>
           IN
            IF NoMainJs(js)
            THEN /\ Exit(r, "failed", 1, done)
                 /\ UNCHANGED tasks
            ELSE \E sts \in [1..(Len(js) + Len(css)) -> {"inflight", "unread"}] :
                   LET ts == Uploads(js, css, sts) IN
                    /\ tasks' = [tasks EXCEPT ![r] = ts]
                    /\ Join(r, ts, done \o UploadEvents(ts))
    /\ UNCHANGED <<missing, force, sourceMaps, appVersion, files, store, store0, exists,
                   url, res>>

\* lines 40-48, 138-143: a put succeeds; when it was the last one,
\* Promise.all resolves and the run reports success
UploadResolves(r, i) ==
    /\ pc[r] = "uploading"
    /\ i \in 1..Len(tasks[r])
    /\ tasks[r][i].st = "inflight"
    /\ LET t == tasks[r][i]
           ts == [tasks[r] EXCEPT ![i].st = "ok"]
       IN
        /\ store' = Put(store, Object(t.Key, t.file, t.ContentType))
        /\ tasks' = [tasks EXCEPT ![r] = ts]
        /\ Join(r, ts, <<>>)
    /\ UNCHANGED <<missing, force, sourceMaps, appVersion, files, store0, exists, url, res>>

\* lines 40-48, 138, 1-5: a put fails; Promise.all rejects, the rejection
\* is unhandled and the handler's throw ends the process
UploadRejects(r, i) ==
    /\ pc[r] = "uploading"
    /\ i \in 1..Len(tasks[r])
    /\ tasks[r][i].st = "inflight"
    /\ LET ts == [tasks[r] EXCEPT ![i].st = "failed"] IN
        /\ tasks' = [tasks EXCEPT ![r] = ts]
        /\ Join(r, ts, <<>>)
    /\ UNCHANGED <<missing, force, sourceMaps, appVersion, files, store, store0, exists,
                   url, res>>

\* a put that was in flight when its process ended may still reach the store
OrphanLands(r, i) ==
    /\ pc[r] = "failed"
    /\ i \in 1..Len(tasks[r])
    /\ tasks[r][i].st = "inflight"
    /\ LET t == tasks[r][i] IN
        store' = Put(store, Object(t.Key, t.file, t.ContentType))
    /\ tasks' = [tasks EXCEPT ![r][i].st = "landed"]
    /\ UNCHANGED <<missing, force, sourceMaps, appVersion, files, store0, pc, exists, log,
                   exitCode, url, res>>

---------------------------------------------------------------------------
(* The normalizer applied to arbitrary strings *)

Alphabet == {"a", "A", "3", ":", "/"}

Strings == UNION { [1..n -> Alphabet] : n \in 0..MaxUrlLen }

\* res := <<deslashUrl(url)>>
Normalize ==
    /\ Len(res) = 0
    /\ pc = [r \in Runs |-> "off"]
    /\ res' = <<deslashUrl(url)>>
    /\ UNCHANGED <<pubVars, url>>

\* res := res \o <<deslashUrl(last result)>>
Renormalize ==
    /\ Len(res) = 1
    /\ res' = Append(res, deslashUrl(res[1]))
    /\ UNCHANGED <<pubVars, url>>

---------------------------------------------------------------------------
(* Specifications *)

InitWith(pc0) ==
    /\ missing \in {"none"} \cup Options
    /\ force \in BOOLEAN
    /\ sourceMaps \in BOOLEAN
    /\ appVersion \in {<<>>, V10}
    /\ files \in Listings
    /\ store \in InitialStores
    /\ store0 = store
    /\ pc = pc0
    /\ exists = [r \in Runs |-> FALSE]
    /\ tasks = [r \in Runs |-> <<>>]
    /\ log = [r \in Runs |-> <<>>]
    /\ exitCode = [r \in Runs |-> -1]
    /\ url = <<>>
    /\ res = <<>>

\* the runs of P are started, the others never are
InitRuns(P) == InitWith([r \in Runs |-> IF r \in P THEN "start" ELSE "off"])

\* one publish run
Init == InitRuns({1})

\* one step of the process of run r, or of the store on a put of run r
Step(r) ==
    \/ MissingArgument(r)
    \/ Start(r)
    \/ ManifestUnreadable(r)
    \/ CheckReturns(r)
    \/ CheckFails(r)
    \/ BuildFails(r)
    \/ ReadDirFails(r)
    \/ BuildDone(r)
    \/ \E i \in 1..(2 * MaxFiles) : UploadResolves(r, i)
    \/ \E i \in 1..(2 * MaxFiles) : UploadRejects(r, i)
    \/ \E i \in 1..(2 * MaxFiles) : OrphanLands(r, i)

Next == \E r \in Runs : Step(r)

Spec == Init /\ [][Next]_vars

\* one publish run in which the store, the build and the event loop keep
\* answering: a step that can be taken is taken in the end
SpecFair == Init /\ [][Next]_vars /\ WF_vars(Next)

\* two publish runs of the same configuration against one bucket
InitTwo ==
    /\ InitRuns({1, 2})
    /\ missing \in {"none", "s3Bucket"}
    /\ files \in SortedListings
    /\ sourceMaps
    /\ store = {}

SpecTwo == InitTwo /\ [][Next]_vars

\* two publish runs of the same configuration, the second started after the
\* first has ended
InitSeq ==
    /\ InitWith([r \in Runs |-> IF r = 1 THEN "start" ELSE "queued"])
    /\ missing \in {"none", "s3Bucket"}
    /\ files \in SortedListings
    /\ sourceMaps
    /\ force
    /\ appVersion = <<>>

\* the operator starts the next run when the runs before it have ended
Launch(r) ==
    /\ pc[r] = "queued"
    /\ \A q \in Runs : q < r => pc[q] \in Terminal
    /\ pc' = [pc EXCEPT ![r] = "start"]
    /\ UNCHANGED <<missing, force, sourceMaps, appVersion, files, store, store0,
                   exists, tasks, log, exitCode, url, res>>

NextSeq == \E r \in Runs : Launch(r) \/ Step(r)

SpecSeq == InitSeq /\ [][NextSeq]_vars

\* deslashUrl on every string up to MaxUrlLen
InitNorm ==
    /\ missing = "none"
    /\ force = FALSE
    /\ sourceMaps = FALSE
    /\ appVersion = <<>>
    /\ files = <<>>
    /\ store = {}
    /\ store0 = {}
    /\ pc = [r \in Runs |-> "off"]
    /\ exists = [r \in Runs |-> FALSE]
    /\ tasks = [r \in Runs |-> <<>>]
    /\ log = [r \in Runs |-> <<>>]
    /\ exitCode = [r \in Runs |-> -1]
    /\ url \in Strings
    /\ res = <<>>

NextNorm == Normalize \/ Renormalize

SpecNorm == InitNorm /\ [][NextNorm]_vars

---------------------------------------------------------------------------
(* Properties *)

HasEv(r, e) == \E k \in 1..Len(log[r]) : log[r][k].ev = e

EvArgs(r, e) == { log[r][k].arg : k \in { j \in 1..Len(log[r]) : log[r][j].ev = e } }

Count(r, e) == Cardinality({ k \in 1..Len(log[r]) : log[r][k].ev = e })

\* the puts the run issued, as (key, content type) pairs
Issued(r) ==
    { [Key |-> tasks[r][i].Key, ContentType |-> tasks[r][i].ContentType] :
        i \in 1..Len(tasks[r]) }

\* what the process saw of each upload (a put landing after the process
\* ended was in flight for the process)
Outcomes(r) ==
    [i \in 1..Len(tasks[r]) |->
        IF tasks[r][i].st = "landed" THEN "inflight" ELSE tasks[r][i].st]

\* C1: a run whose existence check found the version path, with force not
\* set, has ended as aborted with a non-zero status, has not invoked the
\* build, has issued no upload, and the store is as it was before the run.
C1_AbortWithoutForce ==
    \A r \in Runs :
        (exists[r] /\ ~force) =>
            /\ pc[r] = "aborted"
            /\ exitCode[r] > 0
            /\ ~HasEv(r, "build-invoked")
            /\ ~HasEv(r, "upload")
            /\ tasks[r] = <<>>
            /\ store = store0

C1_Witness ==
    \E r \in Runs : exists[r] /\ ~force /\ pc[r] = "aborted" /\ store0 # {}

\* C2: every upload event of a run is preceded, in this order, by the
\* existence check's return, the build's end with exit code 0 and the
\* classification of the directory.
C2_UploadsComeLast ==
    \A r \in Runs : \A k \in 1..Len(log[r]) :
        log[r][k].ev = "upload" =>
            \E a, b, c \in 1..Len(log[r]) :
                /\ a < b /\ b < c /\ c < k
                /\ log[r][a].ev = "check-done"
                /\ log[r][b] = Ev("build-done", <<"exit0">>)
                /\ log[r][c].ev = "classify-done"

C2_Witness ==
    \E r \in Runs : Count(r, "upload") >= 2

\* C3: with force set, of two runs of the same configuration, one that
\* found the version path and one that did not: both invoke the build with
\* the same URL; when the build and the directory read ended alike they
\* issue the same uploads; and when the uploads ended alike too they end in
\* the same state with the same exit status.
C3_ForceIgnoresExistence ==
    force =>
        \A r1, r2 \in Runs :
            ( /\ pc[r1] \in Terminal /\ pc[r2] \in Terminal
              /\ HasEv(r1, "check-done") /\ HasEv(r2, "check-done")
              /\ exists[r1] /\ ~exists[r2] ) =>
                /\ EvArgs(r1, "build-invoked") = EvArgs(r2, "build-invoked")
                /\ Count(r1, "build-invoked") = Count(r2, "build-invoked")
                /\ ( /\ EvArgs(r1, "build-done") = EvArgs(r2, "build-done")
                     /\ HasEv(r1, "readdir-failed") = HasEv(r2, "readdir-failed") ) =>
                        /\ Issued(r1) = Issued(r2)
                        /\ Len(tasks[r1]) = Len(tasks[r2])
                        /\ (Outcomes(r1) = Outcomes(r2)) =>
                              /\ pc[r1] = pc[r2]
                              /\ exitCode[r1] = exitCode[r2]

C3_Witness ==
    /\ force
    /\ pc[1] = "done" /\ pc[2] = "done"
    /\ exists[1] /\ ~exists[2]

\* C4: a run whose classification gave no script has ended with a non-zero
\* status, has issued no upload, scripts or stylesheets, and the store is as
\* it was before the run.
C4_EmptyScriptGuard ==
    \A r \in Runs :
        (HasEv(r, "classify-done") /\ Len(jsFiles(files, sourceMaps)) = 0) =>
            /\ pc[r] = "failed"
            /\ exitCode[r] > 0
            /\ tasks[r] = <<>>
            /\ ~HasEv(r, "upload")
            /\ store = store0

C4_Witness ==
    \E r \in Runs :
        /\ HasEv(r, "classify-done")
        /\ Len(jsFiles(files, sourceMaps)) = 0
        /\ Len(cssFiles(files, sourceMaps)) > 0

\* C5: a run that reached the upload stage has issued exactly one upload
\* per classified artifact, to the key versionS3Path/filename, with content
\* type application/javascript for a script and text/css for a stylesheet,
\* and all of them before it waits on any (none is issued after the stage
\* began).
C5_UploadFanOut ==
    \A r \in Runs :
        (HasEv(r, "classify-done") /\ Len(jsFiles(files, sourceMaps)) > 0) =>
            LET js == jsFiles(files, sourceMaps)
                css == cssFiles(files, sourceMaps)
                N == Len(js) + Len(css)
            IN
                /\ Len(tasks[r]) = N
                /\ Count(r, "upload") = N
                /\ \A i \in 1..Len(js) :
                      /\ tasks[r][i].Key = s3Path \o <<"/">> \o Version \o <<"/">> \o js[i]
                      /\ tasks[r][i].ContentType = "application/javascript"
                /\ \A i \in 1..Len(css) :
                      /\ tasks[r][Len(js) + i].Key =
                            s3Path \o <<"/">> \o Version \o <<"/">> \o css[i]
                      /\ tasks[r][Len(js) + i].ContentType = "text/css"
                /\ EvArgs(r, "upload") = { tasks[r][i].Key : i \in 1..N }

C5_Witness ==
    \E r \in Runs :
        /\ pc[r] = "uploading"
        /\ Len(jsFiles(files, sourceMaps)) = 2
        /\ Len(cssFiles(files, sourceMaps)) = 1

\* C6: a run that reported success (state done, exit status 0, the
\* completion message printed) has every upload resolved; a run with a
\* failed upload is not done, has printed no completion message, and once
\* ended has a non-zero exit status.
C6_SuccessNeedsAllUploads ==
    \A r \in Runs :
        /\ (pc[r] = "done" \/ exitCode[r] = 0 \/ HasEv(r, "complete")) =>
              /\ tasks[r] # <<>>
              /\ \A i \in 1..Len(tasks[r]) : tasks[r][i].st = "ok"
        /\ (\E i \in 1..Len(tasks[r]) : tasks[r][i].st \in {"unread", "failed"}) =>
              /\ pc[r] # "done"
              /\ ~HasEv(r, "complete")
              /\ (pc[r] \in Terminal => exitCode[r] > 0)

C6_Witness ==
    \E r \in Runs :
        /\ pc[r] = "failed"
        /\ \E i, j \in 1..Len(tasks[r]) :
              tasks[r][i].st = "failed" /\ tasks[r][j].st = "ok"

C8_BuildGate ==
    \A r \in Runs :
        /\ Count(r, "build-invoked") <= 1
        /\ Count(r, "build-done") <= 1
        /\ \A k \in 1..Len(log[r]) :
              log[r][k].ev = "build-done" =>
                  /\ (log[r][k].arg = <<"exit0">>) <=>
                        /\ k < Len(log[r])
                        /\ log[r][k+1].ev \in {"classify-done", "readdir-failed"}
                  /\ (log[r][k].arg # <<"exit0">>) =>
                        /\ pc[r] = "failed"
                        /\ exitCode[r] > 0
                        /\ ~HasEv(r, "classify-done")
                        /\ ~HasEv(r, "readdir-failed")
                        /\ ~HasEv(r, "upload")
                        /\ tasks[r] = <<>>

C8_Witness ==
    \E r \in Runs :
        /\ Ev("build-done", <<"signal">>) \in { log[r][k] : k \in 1..Len(log[r]) }
        /\ pc[r] = "failed"

HasAdjacentSlashes(s) == \E i \in 1..(Len(s) - 1) : s[i] = "/" /\ s[i+1] = "/"

\* a lower-case scheme followed by "://" at the start of the string
HasSchemePrefix(s) ==
    \E k \in 2..(Len(s) - 2) :
        /\ \A j \in 1..(k - 1) : s[j] \in Lower
        /\ s[k] = ":"
        /\ s[k+1] = "/"
        /\ s[k+2] = "/"

\* C9: the normalizer is idempotent: applying it to its own result changes
\* nothing.
C9_Idempotent ==
    Len(res) = 2 => res[2] = res[1]

\* C10: the result of the normalizer on a string without a scheme prefix
\* holds no two adjacent '/'.
C10_NoAdjacentSlashes ==
    (Len(res) >= 1 /\ ~HasSchemePrefix(url)) => ~HasAdjacentSlashes(res[1])

Upper == {"A","B","C","D","E","F","G","H","I","J","K","L","M",
          "N","O","P","Q","R","S","T","U","V","W","X","Y","Z"}

Digit == {"0","1","2","3","4","5","6","7","8","9"}

\* s begins with a URI scheme (a letter, then letters, digits, '+', '-',
\* '.'), whose ':' is at position k, followed by "//"
SchemeEndsAt(s, k) ==
    /\ k >= 2
    /\ k + 2 <= Len(s)
    /\ s[1] \in Lower \cup Upper
    /\ \A j \in 2..(k - 1) : s[j] \in Lower \cup Upper \cup Digit \cup {"+", "-", "."}
    /\ s[k] = ":"
    /\ s[k+1] = "/"
    /\ s[k+2] = "/"

\* C11, its first half: the result of the normalizer on a string that
\* begins with a URI scheme followed by "://" begins with the same scheme
\* and "://": the "//" after the scheme's ':' is kept.
C11_SchemeSeparatorKept ==
    Len(res) >= 1 =>
        \A k \in 1..Len(url) :
            SchemeEndsAt(url, k) =>
                /\ Len(res[1]) >= k + 2
                /\ SubSeq(res[1], 1, k + 2) = SubSeq(url, 1, k + 2)

\* the last Len(suf) characters of f are suf
EndsIn(f, suf) ==
    /\ Len(f) >= Len(suf)
    /\ \A i \in 1..Len(suf) : f[Len(f) - Len(suf) + i] = suf[i]

\* out holds each of its entries once, in the order they have in inp
InInputOrder(out, inp) ==
    \A i, j \in 1..Len(out) :
        i < j => \E a, b \in 1..Len(inp) :
                    a < b /\ inp[a] = out[i] /\ inp[b] = out[j]

Range(q) == { q[i] : i \in 1..Len(q) }

\* C12: for the directory listing and the source-map flag of the run, the
\* scripts are the entries, in listing order, that end in .js (or .js.map
\* with the flag) and are not service-worker.js; the stylesheets are the
\* entries, in listing order, that end in .css (or .css.map with the flag);
\* the two are disjoint, service-worker.js is in neither, and the uploads of
\* a run are for the scripts, then the stylesheets, so none is for
\* service-worker.js.
C12_Classifier ==
    LET js == jsFiles(files, sourceMaps)
        css == cssFiles(files, sourceMaps)
        WantJs(f) ==
            /\ EndsIn(f, <<".","j","s">>)
                \/ (sourceMaps /\ EndsIn(f, <<".","j","s",".","m","a","p">>))
            /\ f # <<"s","e","r","v","i","c","e","-","w","o","r","k","e","r",".","j","s">>
        WantCss(f) ==
            \/ EndsIn(f, <<".","c","s","s">>)
            \/ (sourceMaps /\ EndsIn(f, <<".","c","s","s",".","m","a","p">>))
    IN
        /\ Range(js) = { f \in Range(files) : WantJs(f) }
        /\ Range(css) = { f \in Range(files) : WantCss(f) }
        /\ Len(js) = Cardinality(Range(js))
        /\ Len(css) = Cardinality(Range(css))
        /\ InInputOrder(js, files)
        /\ InInputOrder(css, files)
        /\ Range(js) \cap Range(css) = {}
        /\ ServiceWorkerJs \notin Range(js) \cup Range(css)
        /\ \A r \in Runs :
              /\ tasks[r] # <<>> =>
                    [i \in 1..Len(tasks[r]) |-> tasks[r][i].Key] =
                        [i \in 1..(Len(js) + Len(css)) |->
                            versionS3Path \o <<"/">> \o
                                (IF i <= Len(js) THEN js[i] ELSE css[i - Len(js)])]
              /\ \A i \in 1..Len(tasks[r]) :
                    ~EndsIn(tasks[r][i].Key,
                            <<"/","s","e","r","v","i","c","e","-","w","o","r","k","e","r",".","j","s">>)

C12_Witness ==
    \E r \in Runs :
        /\ HasEv(r, "classify-done")
        /\ sourceMaps
        /\ files = <<ServiceWorkerJs, MainJsMap, MainJs>>
        /\ Len(tasks[r]) = 2

\* the store st after the puts of the uploads ts, whose keys are distinct
PutAll(st, ts) ==
    { x \in st : \A i \in 1..Len(ts) : ts[i].Key # x.Key }
        \cup { Object(ts[i].Key, ts[i].file, ts[i].ContentType) : i \in 1..Len(ts) }

\* nothing outside run r made it fail: the check answered, the build did not
\* fail, the directory was read and no upload was rejected
Undisturbed(r) ==
    /\ HasEv(r, "check-done")
    /\ EvArgs(r, "build-done") \subseteq {<<"exit0">>}
    /\ ~HasEv(r, "readdir-failed")
    /\ \A i \in 1..Len(tasks[r]) : tasks[r][i].st \notin {"unread", "failed"}

\* C13: with force set, after a first run that succeeded the store holds
\* what was there before, overwritten by the first run's uploads; a second
\* run of the same configuration and build output, started after the first
\* and not disturbed from outside, succeeds too and leaves the store with
\* exactly the objects (keys, contents, content types) it held after the
\* first run.
C13_RerunLeavesSameStore ==
    (force /\ pc[1] = "done") =>
        /\ pc[2] \in {"queued", "start", "checking", "building"} =>
              store = PutAll(store0, tasks[1])
        /\ (pc[2] \in Terminal /\ Undisturbed(2)) =>
              /\ pc[2] = "done"
              /\ store = PutAll(store0, tasks[1])

C13_Witness ==
    /\ force
    /\ pc[1] = "done" /\ pc[2] = "done"
    /\ exists[2]
    /\ store0 # {}
    /\ Len(tasks[2]) >= 2


\* C14: when a required configuration value (s3Bucket, s3Path, localPath or
\* publicUrlBase) is missing, the process does nothing but exit with a
\* non-zero status: no existence check is issued, no build is invoked and no
\* upload is started.
C14_MissingOptionStopsRun ==
    \A r \in Runs :
        (missing # "none" /\ pc[r] \notin {"off", "queued", "start"}) =>
            /\ pc[r] = "failed"
            /\ exitCode[r] > 0
            /\ ~HasEv(r, "check-issued")
            /\ ~HasEv(r, "build-invoked")
            /\ ~HasEv(r, "upload")

\* run q has written an object to the store
HasWritten(q) == \E i \in 1..Len(tasks[q]) : tasks[q][i].st \in {"ok", "landed"}

\* both runs passed the existence check, built, and wrote the same key
BothPublished ==
    /\ \A r \in Runs :
        /\ ~exists[r]
        /\ HasEv(r, "build-invoked")
        /\ EvArgs(r, "build-done") = {<<"exit0">>}
    /\ \E i \in 1..Len(tasks[1]) : \E j \in 1..Len(tasks[2]) :
        /\ tasks[1][i].Key = tasks[2][j].Key
        /\ StartsWith(tasks[1][i].Key, versionS3Path)
        /\ tasks[1][i].st = "ok"
        /\ tasks[2][j].st = "ok"

\* C15: the existence check is no lock. With force unset and nothing in the
\* store at the start, a run of the version is told the path exists, and is
\* turned away, only when another run has already written an object: a run
\* that is merely checking, building or waiting on its puts stops nobody, and
\* two runs that have both passed the check both write the version path.
C15_CheckIsNoLock ==
    (~force /\ store0 = {}) =>
        \A r \in Runs :
            (exists[r] \/ pc[r] = "aborted") =>
                \E q \in Runs \ {r} : HasWritten(q)

C15_Witness ==
    /\ ~force
    /\ store0 = {}
    /\ pc = [r \in Runs |-> "done"]
    /\ BothPublished

\* run r ended on a rejected upload while another of its uploads is stored
PartialUploadFailure(r) ==
    /\ pc[r] = "failed"
    /\ \E i \in 1..Len(tasks[r]) : Rejected(tasks[r][i])
    /\ \E i \in 1..Len(tasks[r]) : tasks[r][i].st \in {"ok", "landed"}

\* the report tells the operator that artifacts may be live in the store
WarnsOfLiveArtifacts(report) ==
    \E k \in 1..Len(report) : report[k] = "some artifacts may already be live"

\* C16: when some but not all uploads of a run fail, the failure report of
\* the run warns that some artifacts may already be live in the store.
\* Stated for the runs that were given every option.
C16_PartialFailureWarns ==
    \A r \in Runs :
        (missing = "none" /\ PartialUploadFailure(r)) =>
            \E a \in EvArgs(r, "failed") : WarnsOfLiveArtifacts(a)

\* the uploads ts whose put has reached the store
Stored(ts) ==
    LET Test(t) == t.st \in {"ok", "landed"} IN SelectSeq(ts, Test)

\* C17: the uploads of one run go to pairwise distinct keys, so the store
\* holds at every moment what it held at the start overwritten by the puts
\* completed so far, whatever the order they completed in; when all have
\* succeeded it is the start store overwritten by all uploads of the run.
C17_UploadsIndependent ==
    \A r \in Runs :
        /\ \A i, j \in 1..Len(tasks[r]) :
            tasks[r][i].Key = tasks[r][j].Key => i = j
        /\ pc[r] # "off" => store = PutAll(store0, Stored(tasks[r]))
        /\ pc[r] = "done" => store = PutAll(store0, tasks[r])

C17_Witness ==
    \E r \in Runs :
        /\ pc[r] = "done"
        /\ Len(tasks[r]) > 2
        /\ \E o \in store0 : \E i \in 1..Len(tasks[r]) : o.Key = tasks[r][i].Key

\* the store holds an object of the version being published
VersionPublished == \E o \in store : StartsWith(o.Key, versionS3Path \o <<"/">>)

\* C18: with force unset, a run is aborted only if the store holds an object
\* of its own version, a key under s3Path/version/; the objects of another
\* version, also one whose name begins with this version's name, never make
\* it abort. Stated for the runs that were given every option.
C18_AbortOnlyOnOwnVersion ==
    \A r \in Runs :
        (missing = "none" /\ pc[r] = "aborted") => VersionPublished

\* run r has stored the main script under the key the reported URL names
MainScriptUploaded(r) ==
    \E i \in 1..Len(tasks[r]) :
        /\ tasks[r][i].Key = versionS3Path \o <<"/">> \o MainJs
        /\ tasks[r][i].ContentType = JsType
        /\ tasks[r][i].st = "ok"

\* C19: when a run ends in success, the URL it reports as the main script,
\* deslashUrl(publicUrlBase/versionS3Path/main.js), names an object the run
\* uploaded: versionS3Path/main.js is a key of one of its script uploads.
\* Stated for the runs that were given every option.
C19_ReportedMainScriptUploaded ==
    \A r \in Runs :
        (missing = "none" /\ pc[r] = "done") =>
            /\ EvArgs(r, "complete") = {MainUrl}
            /\ MainScriptUploaded(r)

\* the outcome of an ended run and its exit status agree
OutcomeAgrees(r) ==
    /\ pc[r] = "done" <=> exitCode[r] = 0
    /\ pc[r] \in {"aborted", "failed"} <=> exitCode[r] > 0
    /\ pc[r] = "aborted" =>
        /\ exists[r] /\ ~force
        /\ ~HasEv(r, "build-invoked")

\* an ended run stays ended: it keeps its outcome and its exit status,
\* invokes no build and starts no upload
StaysEnded(r) ==
    pc[r] \in Terminal =>
        /\ pc'[r] = pc[r]
        /\ exitCode'[r] = exitCode[r]
        /\ log'[r] = log[r]
        /\ Len(tasks'[r]) = Len(tasks[r])
        /\ \A i \in 1..Len(tasks[r]) : tasks'[r][i].Key = tasks[r][i].Key

\* C20: when the existence check, the build and every upload each complete
\* in the end, the publish run ends, in exactly one of done (exit status 0),
\* aborted (the version exists, force unset, status non-zero) or failed
\* (status non-zero), and once ended it invokes no build and starts no
\* upload.
C20_RunEnds ==
    /\ <>(pc[1] \in Terminal)
    /\ [](\A r \in Runs : pc[r] \in Terminal => OutcomeAgrees(r))
    /\ [](\A r \in Runs : exitCode[r] >= 0 => pc[r] \in Terminal)
    /\ [][\A r \in Runs : StaysEnded(r)]_vars

\* the process ended on a rejected upload; a put it had issued landed after
\* that, and nothing else happened
C20_Witness ==
    /\ pc[1] = "failed"
    /\ exitCode[1] > 0
    /\ \E i \in 1..Len(tasks[1]) : tasks[1][i].st = "landed"

=============================================================================
